---- MODULE Spec2Model ----
(***************************************************************************)
(* Model of the medical-records backend (backend/database.py and           *)
(* backend/server.py): the patient_records, users and sync_log tables, the *)
(* patient-id resolver Database.get_next_patient_id, the handlers that     *)
(* create, read, list, update, delete and export records, registration,   *)
(* the storage statistics and the backup to Google Drive.                  *)
(*                                                                         *)
(* Text is modelled at character level where the code inspects characters: *)
(* a patient name and a patient id are sequences of one-character strings, *)
(* so that SQL LOWER() and the f"P{n:04d}" formatting are computed, not    *)
(* assumed.  Free text the code only stores (diagnosis, medicines) is a    *)
(* plain string.  An Optional[...] request field is a set with at most one *)
(* element ({} is None).                                                   *)
(***************************************************************************)
EXTENDS Integers, Sequences, FiniteSets, TLC

VARIABLES
    patient_records,   \* rows of table patient_records
    seq_patient,       \* sqlite_sequence entry of patient_records (AUTOINCREMENT)
    now,               \* CURRENT_TIMESTAMP, a logical clock
    resp,              \* what the last request did and answered
    issued,            \* history variable: <<LOWER(name), patient_id>> of the
                       \* successful creates, kept where a property needs it
    db_size_bytes,     \* size of the database file medical_records.db
    drive_connected,   \* drive_credentials holds a row with an access token
    sync_log,          \* rows of table sync_log, in rowid order
    drive_files,       \* files the Drive account holds, in upload order
    bk,                \* the running invocation of check_and_backup_if_needed
    req,               \* create requests in progress, one entry per client
    users,             \* rows of table users
    seq_user,          \* sqlite_sequence entry of users (AUTOINCREMENT)
    reg                \* register requests in progress, one entry per client

backupVars == <<db_size_bytes, drive_connected, sync_log, drive_files, bk>>

vars == <<patient_records, seq_patient, now, resp, issued, db_size_bytes,
          drive_connected, sync_log, drive_files, bk, req, users, seq_user, reg>>

userVars == <<users, seq_user, reg>>

----------------------------------------------------------------------------
(* Bounds *)

MaxRecords == 2    \* rows ever inserted when every kind of request is issued
MaxCreates == 3    \* rows ever inserted when only creates (and deletes) are issued
MaxClock == 1
MaxBackupCreates == 2   \* rows ever inserted while the backup trigger is followed
MaxUploads == 1         \* backups requested through POST /drive/backup
MaxRequests == 2        \* clients issuing create requests concurrently
MaxRegisters == 3       \* register requests, concurrent or one after another

----------------------------------------------------------------------------
(* Request inputs *)

JohnDoe == <<"J", "o", "h", "n", " ", "D", "o", "e">>
johndoe == <<"j", "o", "h", "n", " ", "d", "o", "e">>
JaneSmith == <<"J", "a", "n", "e", " ", "S", "m", "i", "t", "h">>
Names == {JohnDoe, johndoe, JaneSmith}
EmptyName == << >>

Diagnoses == {"flu"}
NewNames == {johndoe, JaneSmith}
NewDiagnoses == {"cold"}
Medicines == {"aspirin"}
UserIds == {1}

None == {}
Some(v) == {v}

CreateInputs ==
    [patient_name : Names, diagnosis_details : Diagnoses, medicine_names : Medicines]

UpdateInputs ==
    [patient_name : {None, Some(EmptyName)} \cup {Some(n) : n \in NewNames},
     diagnosis_details : {None} \cup {Some(d) : d \in NewDiagnoses},
     medicine_names : {None} \cup {Some(m) : m \in Medicines}]

CreateFaults == {"none", "store"}
UpdateFaults == {"none", "store"}
DeleteFaults == {"none", "store"}

----------------------------------------------------------------------------
(* SQL LOWER(): folds the 26 ASCII capitals, leaves every other character *)

AsciiLower ==
    ("A" :> "a") @@ ("B" :> "b") @@ ("C" :> "c") @@ ("D" :> "d") @@ ("E" :> "e") @@
    ("F" :> "f") @@ ("G" :> "g") @@ ("H" :> "h") @@ ("I" :> "i") @@ ("J" :> "j") @@
    ("K" :> "k") @@ ("L" :> "l") @@ ("M" :> "m") @@ ("N" :> "n") @@ ("O" :> "o") @@
    ("P" :> "p") @@ ("Q" :> "q") @@ ("R" :> "r") @@ ("S" :> "s") @@ ("T" :> "t") @@
    ("U" :> "u") @@ ("V" :> "v") @@ ("W" :> "w") @@ ("X" :> "x") @@ ("Y" :> "y") @@
    ("Z" :> "z")

LowerChar(c) == IF c \in DOMAIN AsciiLower THEN AsciiLower[c] ELSE c

Lower(s) == [i \in 1..Len(s) |-> LowerChar(s[i])]

----------------------------------------------------------------------------
(* f"P{next_id:04d}" *)

DigitChar == <<"0", "1", "2", "3", "4", "5", "6", "7", "8", "9">>

RECURSIVE DecDigits(_)
DecDigits(n) ==
    IF n < 10 THEN <<DigitChar[n + 1]>>
    ELSE DecDigits(n \div 10) \o <<DigitChar[(n % 10) + 1]>>

RECURSIVE ZeroPad(_, _)
ZeroPad(ds, width) == IF Len(ds) >= width THEN ds ELSE ZeroPad(<<"0">> \o ds, width)

FormatPatientId(n) == <<"P">> \o ZeroPad(DecDigits(n), 4)

----------------------------------------------------------------------------
(* Database.get_next_patient_id *)

NameMatchesExact(row_name, patient_name) == row_name = patient_name

\* WHERE LOWER(patient_name) = LOWER(?)
NameMatches(row_name, patient_name) == Lower(row_name) = Lower(patient_name)

MatchingRows(rows, patient_name) ==
    {r \in rows : NameMatches(r.patient_name, patient_name)}

\* LIMIT 1 of a table scan: the matching row of least rowid
FirstRow(rows) == CHOOSE r \in rows : \A q \in rows : r.id <= q.id

CountRows(rows) == Cardinality(rows)

CountAllPatientId(rows) == Cardinality(rows)

\* SELECT COUNT(DISTINCT patient_id) FROM patient_records
CountDistinctPatientId(rows) == Cardinality({r.patient_id : r \in rows})

\* the id the two SELECTs yield when both read the same rows
NextPatientId(rows, patient_name) ==
    IF MatchingRows(rows, patient_name) # {}
    THEN FirstRow(MatchingRows(rows, patient_name)).patient_id
    ELSE FormatPatientId(CountDistinctPatientId(rows) + 1)

get_next_patient_id(patient_name) == NextPatientId(patient_records, patient_name)

----------------------------------------------------------------------------
(* Database.get_storage_stats *)

\* the file as init_db leaves it, a size whose percentage (13.625) is a tie
\* of the rounding, then sizes around the 80% mark of 50 MB
InitialDbSize == 40960
DbSizes == {40960, 7143424, 41938944, 41943040, 47185920}

max_storage_mb == 50
BytesPerMB == 1024 * 1024

Pow2(k) == 2 ^ k

\* floor(log2(n)): the binary exponent of the double holding n, 0 < n < 2^31
BinaryExponent(n) == CHOOSE a \in 0..30 : n \div Pow2(a) = 1

\* 2^k modulo m, by repeated squaring
RECURSIVE Pow2Mod(_, _)
Pow2Mod(k, m) ==
    IF k = 0 THEN 1 % m
    ELSE LET h == Pow2Mod(k \div 2, m)
         IN IF k % 2 = 0 THEN (h * h) % m ELSE (2 * h * h) % m

\* the sign of the error of (storage_used_mb / max_storage_mb) * 100 in
\* binary64 against the exact percentage.  storage_used_mb = bytes / 2^20 is
\* exact; the quotient by 50 is rounded to 53 bits, its remainder being r
\* fiftieths of a unit in the last place; the product by 100 carries 2r units
\* of error and is rounded again, which cancels the error unless the
\* mantissa of bytes is at least 25/16 (the product then has the coarser
\* spacing of the quotient, 64 against 100 units) and |r| >= 17
FloatError(bytes) ==
    IF bytes = 0 THEN 0 ELSE
    LET a == BinaryExponent(bytes)
        r0 == ((bytes % max_storage_mb) * Pow2Mod(57 - a, max_storage_mb))
                 % max_storage_mb
        r == IF 2 * r0 > max_storage_mb THEN r0 - max_storage_mb ELSE r0
        wide == IF a >= 4 THEN bytes >= 25 * Pow2(a - 4)
                ELSE bytes * 16 >= 25 * Pow2(a)
    IN IF wide /\ r >= 17 THEN -1
       ELSE IF wide /\ r <= -17 THEN 1
       ELSE 0

\* round(x, 2) of x = (whole + num / den) / 100, in hundredths: the decimal
\* nearest to the double; at an exact tie the double is the tie itself
\* (lean = 0, rounded half to even) or lies just beside it (lean = -1, 1)
Round2(whole, num, den, lean) ==
    LET q == whole + (num \div den)
        r == num % den
    IN IF 2 * r < den THEN q
       ELSE IF 2 * r > den THEN q + 1
       ELSE IF lean < 0 THEN q
       ELSE IF lean > 0 THEN q + 1
       ELSE IF q % 2 = 0 THEN q ELSE q + 1

\* percentages and megabytes are kept in hundredths: 8000 is 80.0
\* storage_used_mb is bytes * 100 / BytesPerMB = bytes * 25 / 2^18 and
\* storage_percentage is bytes * 100 * 100 / (max_storage_mb * BytesPerMB)
\* = bytes * 25 / 2^17, split into whole and fraction to stay within 32 bits
StorageStats(total_records, bytes) ==
    LET mbDen == BytesPerMB \div 4
        pctDen == (max_storage_mb * BytesPerMB) \div 400
    IN [total_records |-> total_records,
        storage_used_mb |-> Round2(25 * (bytes \div mbDen), 25 * (bytes % mbDen),
                                   mbDen, 0),
        storage_percentage |-> Round2(25 * (bytes \div pctDen),
                                      25 * (bytes % pctDen), pctDen,
                                      FloatError(bytes)),
        db_size_bytes |-> bytes]

----------------------------------------------------------------------------
(* Responses *)

NoId == << >>

Response(op, status, body, rowid, name, pid, matched, checked) ==
    [op |-> op, status |-> status, body |-> body, rowid |-> rowid,
     name |-> name, patient_id |-> pid, matched |-> matched,
     backup_checked |-> checked]

NoFile == [id |-> 0, name |-> 0, size |-> 0]

\* pc: Idle, Evaluating, Uploading or a terminal outcome; stage: the statement
\* the invocation runs next; needs: the storage statistics were read and ask
\* for a backup; caller: the create request that runs the check; queried:
\* check_drive_status was called; attempts: uploads tried; raised: an
\* exception left the function; file: what the upload returned
BkIdle ==
    [pc |-> "Idle", stage |-> "none", needs |-> FALSE, caller |-> 0,
     queried |-> FALSE, attempts |-> 0, raised |-> FALSE, file |-> NoFile]

Clients == 1..MaxRequests

Registrants == 1..MaxRegisters

\* passed: the SELECT for the phone number found no user; rowid: lastrowid of
\* the committed INSERT (0: nothing inserted); detail: the detail of the
\* HTTPException the request was answered with
RegIdle == [pc |-> "idle", phone_number |-> "", passed |-> FALSE, rowid |-> 0,
            status |-> 0, detail |-> ""]

NoRecord == [patient_name |-> EmptyName, diagnosis_details |-> "", medicine_names |-> ""]

NoUpdate == [patient_name |-> None, diagnosis_details |-> None, medicine_names |-> None]

\* a request in flight, between two awaited statements.  op: the handler; pc:
\* the statement it runs next; looked_at, counted_at: the AUTOINCREMENT value
\* when get_next_patient_id ran its first and its second SELECT (-1: not run),
\* and changed: the UPDATE changed a row, both kept for the properties;
\* total_records: the COUNT(*) of get_storage_stats;
\* file: what the upload of backup_to_drive returned
ReqIdle ==
    [op |-> "none", pc |-> "idle", record |-> NoRecord, user_id |-> 0,
     patient_id |-> NoId, rowid |-> 0, status |-> 0, looked_at |-> -1,
     counted_at |-> -1, update_data |-> NoUpdate, changed |-> FALSE,
     total_records |-> 0, file |-> NoFile]

\* the client has no request in flight
Free(p) == req[p].pc \in {"idle", "done"}

\* the request is answered: what it was sent and what it read is dropped
Answered(r, status) ==
    [ReqIdle EXCEPT !.op = r.op, !.pc = "done", !.status = status,
                    !.rowid = r.rowid, !.patient_id = r.patient_id,
                    !.looked_at = r.looked_at, !.counted_at = r.counted_at,
                    !.changed = r.changed]

Init ==
    /\ patient_records = {}
    /\ seq_patient = 0
    /\ now = 0
    /\ resp = Response("none", 0, {}, 0, EmptyName, NoId, FALSE, FALSE)
    /\ issued = {}
    /\ db_size_bytes = InitialDbSize
    /\ drive_connected = FALSE
    /\ sync_log = << >>
    /\ drive_files = << >>
    /\ bk = BkIdle
    /\ req = [p \in Clients |-> ReqIdle]
    /\ users = {}
    /\ seq_user = 0
    /\ reg = [p \in Registrants |-> RegIdle]

----------------------------------------------------------------------------
(* POST /patients *)

NewRow(rowid, user_id, patient_id, record, ts) ==
    [id |-> rowid, user_id |-> user_id, patient_id |-> patient_id,
     patient_name |-> record.patient_name,
     diagnosis_details |-> record.diagnosis_details,
     medicine_names |-> record.medicine_names,
     created_at |-> ts, updated_at |-> ts]

----------------------------------------------------------------------------
(* CURRENT_TIMESTAMP advances *)

Tick ==
    /\ now < MaxClock
    /\ now' = now + 1
    /\ UNCHANGED <<patient_records, seq_patient, resp>>

----------------------------------------------------------------------------
(* PUT /patients/{record_id} *)

TruthyName(o) == \E v \in o : v # EmptyName
TruthyText(o) == \E v \in o : v # ""

TheValue(o) == CHOOSE v \in o : TRUE

\* UPDATE patient_records SET <fields given and truthy>, updated_at = CURRENT_TIMESTAMP
UpdatedRowReassign(r, update_data, ts) ==
    [r EXCEPT
        !.patient_id = IF TruthyName(update_data.patient_name)
                       THEN NextPatientId(patient_records \ {r},
                                          TheValue(update_data.patient_name))
                       ELSE @,
        !.patient_name = IF TruthyName(update_data.patient_name)
                         THEN TheValue(update_data.patient_name) ELSE @,
        !.diagnosis_details = IF TruthyText(update_data.diagnosis_details)
                              THEN TheValue(update_data.diagnosis_details) ELSE @,
        !.medicine_names = IF TruthyText(update_data.medicine_names)
                           THEN TheValue(update_data.medicine_names) ELSE @,
        !.updated_at = ts]

UpdatedRow(r, update_data, ts) ==
    [r EXCEPT
        !.patient_name = IF TruthyName(update_data.patient_name)
                         THEN TheValue(update_data.patient_name) ELSE @,
        !.diagnosis_details = IF TruthyText(update_data.diagnosis_details)
                              THEN TheValue(update_data.diagnosis_details) ELSE @,
        !.medicine_names = IF TruthyText(update_data.medicine_names)
                           THEN TheValue(update_data.medicine_names) ELSE @,
        !.updated_at = ts]

NoUpdateFields(update_data) ==
    /\ ~TruthyName(update_data.patient_name)
    /\ ~TruthyText(update_data.diagnosis_details)
    /\ ~TruthyText(update_data.medicine_names)

\* class PatientRecord: the fields without a default
RequiredFields ==
    {"user_id", "patient_id", "patient_name", "diagnosis_details", "medicine_names"}

\* pydantic raises ValidationError when a required field is missing
Validates(given) == RequiredFields \subseteq given

\* the keyword arguments update_patient_record passes to PatientRecord(...)
FieldsGivenOnUpdate ==
    {"id", "patient_id", "patient_name", "diagnosis_details", "medicine_names",
     "created_at", "updated_at"}

\* the fields are examined, then UPDATE patient_records ...; commit
UpdateCommit(p, record_id, update_data, fault) ==
    LET r == [ReqIdle EXCEPT !.op = "update", !.rowid = record_id,
                             !.update_data = update_data]
    IN
    /\ Free(p)
    /\ IF NoUpdateFields(update_data)
       THEN \* HTTPException(400, "No fields to update")
            /\ req' = [req EXCEPT ![p] = Answered(r, 400)]
            /\ resp' = Response("update", 400, {}, record_id, EmptyName, NoId,
                                FALSE, FALSE)
            /\ UNCHANGED patient_records
       ELSE IF fault = "store"
       THEN \* the UPDATE / commit raised
            /\ req' = [req EXCEPT ![p] = Answered(r, 500)]
            /\ resp' = Response("update", 500, {}, record_id, EmptyName, NoId,
                                FALSE, FALSE)
            /\ UNCHANGED patient_records
       ELSE /\ patient_records' =
                   {IF q.id = record_id THEN UpdatedRow(q, update_data, now) ELSE q :
                        q \in patient_records}
            /\ req' = [req EXCEPT ![p] =
                          [r EXCEPT !.pc = "updated",
                                    !.changed = patient_records' # patient_records]]
            /\ UNCHANGED resp
    /\ UNCHANGED <<seq_patient, now, userVars, backupVars>>

\* SELECT * FROM patient_records WHERE id = ?, then the answer is built
UpdateFetch(p, fault) ==
    LET record_id == req[p].rowid
        fetched == {q \in patient_records : q.id = record_id}
        status == IF fault = "store" THEN 500
                  ELSE IF fetched = {} THEN 404
                  \* PatientRecord(...) is built without the required user_id:
                  \* the validation error is answered as 500
                  ELSE IF Validates(FieldsGivenOnUpdate) THEN 200 ELSE 500
    IN
    /\ req[p].op = "update"
    /\ req[p].pc = "updated"
    /\ req' = [req EXCEPT ![p] = Answered(req[p], status)]
    /\ resp' = Response("update", status, IF status = 200 THEN fetched ELSE {},
                        record_id, EmptyName, NoId, FALSE, FALSE)
    /\ UNCHANGED <<patient_records, seq_patient, now, userVars, backupVars>>

----------------------------------------------------------------------------
(* DELETE /patients/{record_id} *)

\* DELETE FROM patient_records WHERE id = ?; commit; rowcount decides 404
delete_patient_record_ignoring_rowcount(record_id, fault) ==
    LET deleted == {r \in patient_records : r.id = record_id} IN
    /\ UNCHANGED <<seq_patient, now>>
    /\ IF fault = "store"
       THEN /\ resp' = Response("delete", 500, {}, record_id, EmptyName, NoId,
                                FALSE, FALSE)
            /\ UNCHANGED patient_records
       ELSE /\ patient_records' = patient_records \ deleted
            /\ resp' = Response("delete", 200, {}, record_id, EmptyName, NoId,
                                FALSE, FALSE)

delete_patient_record(record_id, fault) ==
    LET deleted == {r \in patient_records : r.id = record_id} IN
    /\ UNCHANGED <<seq_patient, now>>
    /\ IF fault = "store"
       THEN /\ resp' = Response("delete", 500, {}, record_id, EmptyName, NoId,
                                FALSE, FALSE)
            /\ UNCHANGED patient_records
       ELSE /\ patient_records' = patient_records \ deleted
            /\ resp' = Response("delete", IF CountRows(deleted) = 0 THEN 404 ELSE 200,
                                {}, record_id, EmptyName, NoId, FALSE, FALSE)

Delete(limit) == \E record_id \in 1..limit, fault \in DeleteFaults :
              delete_patient_record(record_id, fault)

----------------------------------------------------------------------------
(* GET /storage-stats *)

BackupThresholdPct == 80

NeedsBackupAbove(storage_percentage) == storage_percentage > BackupThresholdPct * 100

\* needs_backup=stats['storage_percentage'] >= 80
NeedsBackup(storage_percentage) == storage_percentage >= BackupThresholdPct * 100

StatsFaults == {"none", "store"}

\* Database.get_storage_stats, first statement: SELECT COUNT(*) FROM
\* patient_records; the connection block is then left
StatsCount(p, fault) ==
    LET r == [ReqIdle EXCEPT !.op = "stats"] IN
    /\ Free(p)
    /\ IF fault = "store"
       THEN /\ req' = [req EXCEPT ![p] = Answered(r, 500)]
            /\ resp' = Response("storage-stats", 500, {}, 0, EmptyName, NoId,
                                FALSE, FALSE)
       ELSE /\ req' = [req EXCEPT ![p] =
                          [r EXCEPT !.pc = "counted",
                                    !.total_records = CountRows(patient_records)]]
            /\ UNCHANGED resp
    /\ UNCHANGED <<patient_records, seq_patient, now, userVars, backupVars>>

\* db_size_bytes = await self.get_db_size(), the statistics and the answer
StatsSize(p) ==
    LET stats == StorageStats(req[p].total_records, db_size_bytes) IN
    /\ req[p].op = "stats"
    /\ req[p].pc = "counted"
    /\ req' = [req EXCEPT ![p] = Answered(req[p], 200)]
    /\ resp' = Response("storage-stats", 200,
                        {[total_records |-> stats.total_records,
                          storage_used_mb |-> stats.storage_used_mb,
                          storage_percentage |-> stats.storage_percentage,
                          needs_backup |-> NeedsBackup(stats.storage_percentage)]},
                        0, EmptyName, NoId, FALSE, FALSE)
    /\ UNCHANGED <<patient_records, seq_patient, now, userVars, backupVars>>

\* the database file grows as the store is written
StoreGrows == \E bytes \in DbSizes :
    /\ bytes > db_size_bytes
    /\ db_size_bytes' = bytes
    /\ UNCHANGED <<patient_records, seq_patient, now, resp, userVars, drive_connected,
                   sync_log, drive_files, bk, req>>

----------------------------------------------------------------------------
(* GET /drive/callback, GET /drive/status *)

CallbackFaults == {"none", "oauth"}

drive_callback(fault) ==
    /\ IF fault = "oauth"
       THEN \* HTTPException(400, "OAuth failed")
            /\ resp' = Response("drive-callback", 400, {}, 0, EmptyName, NoId,
                                FALSE, FALSE)
            /\ UNCHANGED drive_connected
       ELSE \* INSERT OR REPLACE INTO drive_credentials
            /\ resp' = Response("drive-callback", 200, {}, 0, EmptyName, NoId,
                                FALSE, FALSE)
            /\ drive_connected' = TRUE
    /\ UNCHANGED <<patient_records, seq_patient, now, userVars, db_size_bytes,
                   sync_log, drive_files, bk, req>>

DriveCallback == \E fault \in CallbackFaults : drive_callback(fault)

StatusFaults == {"none", "store"}

StatusIgnoringRow(fault) == [connected |-> fault # "store"]

\* check_drive_status: a fault of the query is answered as not connected
DriveStatus(fault) ==
    IF fault = "store" THEN [connected |-> FALSE]
    ELSE [connected |-> drive_connected]

----------------------------------------------------------------------------
(* POST /drive/backup *)

BackupFaults == {"none", "store"}

\* what service.files().create(...).execute() returns: the file is named
\* after the clock and holds the database as it is when it is sent
UploadedFile == [id |-> Len(drive_files) + 1, name |-> now, size |-> db_size_bytes]

SyncLogRow(sync_type, file, status) ==
    [sync_type |-> sync_type, file_name |-> file.name, file_size |-> file.size,
     drive_file_id |-> file.id, status |-> status]

LoggedOverLast(log, row) ==
    IF log = << >> THEN <<row>> ELSE [log EXCEPT ![Len(log)] = row]

\* INSERT INTO sync_log
Logged(log, row) == Append(log, row)

\* service = await get_drive_service(): SELECT * FROM drive_credentials.  No
\* row is HTTPException(400), passed on as it is; any other exception of
\* backup_to_drive is answered as 500
BackupAuthorize(p, fault) ==
    LET r == [ReqIdle EXCEPT !.op = "backup"]
        status == IF fault = "store" THEN 500
                  ELSE IF ~drive_connected THEN 400 ELSE 200
    IN
    /\ Free(p)
    /\ IF status # 200
       THEN /\ req' = [req EXCEPT ![p] = Answered(r, status)]
            /\ resp' = Response("drive-backup", status, {}, 0, EmptyName, NoId,
                                FALSE, FALSE)
       ELSE /\ req' = [req EXCEPT ![p] = [r EXCEPT !.pc = "authorized"]]
            /\ UNCHANGED resp
    /\ UNCHANGED <<patient_records, seq_patient, now, userVars, backupVars>>

\* file = service.files().create(...).execute()
BackupUpload(p, fault) ==
    /\ req[p].op = "backup"
    /\ req[p].pc = "authorized"
    /\ IF fault = "store"
       THEN /\ req' = [req EXCEPT ![p] = Answered(req[p], 500)]
            /\ resp' = Response("drive-backup", 500, {}, 0, EmptyName, NoId,
                                FALSE, FALSE)
            /\ UNCHANGED drive_files
       ELSE /\ drive_files' = Append(drive_files, UploadedFile)
            /\ req' = [req EXCEPT ![p].pc = "uploaded", ![p].file = UploadedFile]
            /\ UNCHANGED resp
    /\ UNCHANGED <<patient_records, seq_patient, now, userVars, db_size_bytes,
                   drive_connected, sync_log, bk>>

\* INSERT INTO sync_log ...; commit, then the answer
BackupLog(p, fault) ==
    /\ req[p].op = "backup"
    /\ req[p].pc = "uploaded"
    /\ IF fault = "store"
       THEN /\ req' = [req EXCEPT ![p] = Answered(req[p], 500)]
            /\ resp' = Response("drive-backup", 500, {}, 0, EmptyName, NoId,
                                FALSE, FALSE)
            /\ UNCHANGED sync_log
       ELSE /\ sync_log' = Logged(sync_log,
                                  SyncLogRow("backup", req[p].file, "success"))
            /\ req' = [req EXCEPT ![p] = Answered(req[p], 200)]
            /\ resp' = Response("drive-backup", 200, {}, 0, EmptyName, NoId,
                                FALSE, FALSE)
    /\ UNCHANGED <<patient_records, seq_patient, now, userVars, db_size_bytes,
                   drive_connected, drive_files, bk>>

----------------------------------------------------------------------------
(* check_and_backup_if_needed, one step per awaited statement *)

Terminal == {"SkippedBelow", "SkippedNoLink", "Succeeded", "Failed"}

BkStarted(p) == [BkIdle EXCEPT !.pc = "Evaluating", !.stage = "count", !.caller = p]

StorageAtAnyLevel(storage_percentage) == TRUE

\* if stats['storage_percentage'] >= 80
StorageAtThreshold(storage_percentage) ==
    storage_percentage >= BackupThresholdPct * 100

\* except Exception as e: logger.error(...)
Catches(exc) == exc \in {"Exception", "HTTPException"}

\* the invocation ends on an exception: swallowed, or passed on to the caller
Ended(b, exc) ==
    [b EXCEPT !.pc = "Failed", !.raised = ~Catches(exc)]

\* stats = await db_instance.get_storage_stats(), first statement
BkCount(fault) ==
    /\ bk.pc = "Evaluating"
    /\ bk.stage = "count"
    /\ bk' = IF fault = "store" THEN Ended(bk, "Exception")
             ELSE [bk EXCEPT !.stage = "size"]
    /\ UNCHANGED <<patient_records, seq_patient, now, resp, userVars, db_size_bytes,
                   drive_connected, sync_log, drive_files, req>>

\* the file size is read and the percentage compared with the threshold
BkSize ==
    /\ bk.pc = "Evaluating"
    /\ bk.stage = "size"
    /\ bk' = IF StorageAtThreshold(StorageStats(0, db_size_bytes).storage_percentage)
             THEN [bk EXCEPT !.stage = "status", !.needs = TRUE]
             ELSE [bk EXCEPT !.pc = "SkippedBelow"]
    /\ UNCHANGED <<patient_records, seq_patient, now, resp, userVars, db_size_bytes,
                   drive_connected, sync_log, drive_files, req>>

\* status = await check_drive_status()
BkStatus(fault) ==
    /\ bk.pc = "Evaluating"
    /\ bk.stage = "status"
    /\ bk' = IF DriveStatus(fault).connected
             THEN [bk EXCEPT !.pc = "Uploading", !.stage = "authorize",
                             !.queried = TRUE]
             ELSE [bk EXCEPT !.pc = "SkippedNoLink", !.queried = TRUE]
    /\ UNCHANGED <<patient_records, seq_patient, now, resp, userVars, db_size_bytes,
                   drive_connected, sync_log, drive_files, req>>

\* await backup_to_drive(): get_drive_service.  Whatever backup_to_drive
\* raises reaches the check as an HTTPException
BkAuthorize(fault) ==
    /\ bk.pc = "Uploading"
    /\ bk.stage = "authorize"
    /\ bk' = IF fault = "store" \/ ~drive_connected
             THEN Ended(bk, "HTTPException")
             ELSE [bk EXCEPT !.stage = "upload"]
    /\ UNCHANGED <<patient_records, seq_patient, now, resp, userVars, db_size_bytes,
                   drive_connected, sync_log, drive_files, req>>

BkUploadRetrying(fault) ==
    /\ bk.pc = "Uploading"
    /\ bk.stage = "upload"
    /\ IF fault = "store"
       THEN /\ bk' = IF bk.attempts = 0
                     THEN [bk EXCEPT !.attempts = @ + 1]
                     ELSE [Ended(bk, "HTTPException") EXCEPT !.attempts = @ + 1]
            /\ UNCHANGED drive_files
       ELSE /\ drive_files' = Append(drive_files, UploadedFile)
            /\ bk' = [bk EXCEPT !.stage = "log", !.attempts = @ + 1,
                                !.file = UploadedFile]
    /\ UNCHANGED <<patient_records, seq_patient, now, resp, userVars, db_size_bytes,
                   drive_connected, sync_log, req>>

\* await backup_to_drive(): the upload
BkUpload(fault) ==
    /\ bk.pc = "Uploading"
    /\ bk.stage = "upload"
    /\ IF fault = "store"
       THEN /\ bk' = [Ended(bk, "HTTPException") EXCEPT !.attempts = @ + 1]
            /\ UNCHANGED drive_files
       ELSE /\ drive_files' = Append(drive_files, UploadedFile)
            /\ bk' = [bk EXCEPT !.stage = "log", !.attempts = @ + 1,
                                !.file = UploadedFile]
    /\ UNCHANGED <<patient_records, seq_patient, now, resp, userVars, db_size_bytes,
                   drive_connected, sync_log, req>>

\* await backup_to_drive(): the sync_log row
BkLog(fault) ==
    /\ bk.pc = "Uploading"
    /\ bk.stage = "log"
    /\ IF fault = "store"
       THEN /\ bk' = Ended(bk, "HTTPException")
            /\ UNCHANGED sync_log
       ELSE /\ sync_log' = Logged(sync_log, SyncLogRow("backup", bk.file, "success"))
            /\ bk' = [bk EXCEPT !.pc = "Succeeded"]
    /\ UNCHANGED <<patient_records, seq_patient, now, resp, userVars, db_size_bytes,
                   drive_connected, drive_files, req>>

BkStep ==
    \/ \E fault \in StatsFaults : BkCount(fault)
    \/ BkSize
    \/ \E fault \in StatusFaults : BkStatus(fault)
    \/ \E fault \in BackupFaults : BkAuthorize(fault)
    \/ \E fault \in BackupFaults : BkUpload(fault)
    \/ \E fault \in BackupFaults : BkLog(fault)

----------------------------------------------------------------------------
(* POST /patients, one step per awaited statement *)

\* the first SELECT of get_next_patient_id found a row
Matched(r) == r.patient_id # NoId /\ r.counted_at < 0

\* the request ends in the handler's except clause: HTTPException(500)
CreateFailed(p, r) ==
    /\ req' = [req EXCEPT ![p] = Answered(r, 500)]
    /\ resp' = Response("create", 500, {}, r.rowid, r.record.patient_name, NoId,
                        Matched(r), FALSE)

ReqLookupWithoutMatch(p, record, user_id, fault) ==
    LET matching == {}
        r == [ReqIdle EXCEPT !.op = "create", !.record = record,
                             !.user_id = user_id]
    IN
    /\ Free(p)
    /\ IF fault = "store"
       THEN CreateFailed(p, r)
       ELSE /\ req' = [req EXCEPT ![p] =
                          IF matching # {}
                          THEN [r EXCEPT !.pc = "resolved",
                                         !.patient_id = FirstRow(matching).patient_id,
                                         !.looked_at = seq_patient]
                          ELSE [r EXCEPT !.pc = "counting",
                                         !.looked_at = seq_patient]]
            /\ UNCHANGED resp
    /\ UNCHANGED <<patient_records, seq_patient, now, userVars, backupVars>>

\* get_next_patient_id, first SELECT: the id of the first matching row
ReqLookup(p, record, user_id, fault) ==
    LET matching == MatchingRows(patient_records, record.patient_name)
        r == [ReqIdle EXCEPT !.op = "create", !.record = record,
                             !.user_id = user_id]
    IN
    /\ Free(p)
    /\ IF fault = "store"
       THEN CreateFailed(p, r)
       ELSE /\ req' = [req EXCEPT ![p] =
                          IF matching # {}
                          THEN [r EXCEPT !.pc = "resolved",
                                         !.patient_id = FirstRow(matching).patient_id,
                                         !.looked_at = seq_patient]
                          ELSE [r EXCEPT !.pc = "counting",
                                         !.looked_at = seq_patient]]
            /\ UNCHANGED resp
    /\ UNCHANGED <<patient_records, seq_patient, now, userVars, backupVars>>

ReqCountInLookupSnapshot(p, fault) ==
    /\ req[p].op = "create"
    /\ req[p].pc = "counting"
    /\ IF fault = "store"
       THEN CreateFailed(p, req[p])
       ELSE /\ req' = [req EXCEPT
                          ![p].pc = "resolved",
                          ![p].patient_id =
                              FormatPatientId(CountDistinctPatientId(
                                  {r \in patient_records : r.id <= req[p].looked_at}) + 1),
                          ![p].counted_at = seq_patient]
            /\ UNCHANGED resp
    /\ UNCHANGED <<patient_records, seq_patient, now, userVars, backupVars>>

\* get_next_patient_id, second SELECT: COUNT(DISTINCT patient_id) + 1
ReqCount(p, fault) ==
    /\ req[p].op = "create"
    /\ req[p].pc = "counting"
    /\ IF fault = "store"
       THEN CreateFailed(p, req[p])
       ELSE /\ req' = [req EXCEPT
                          ![p].pc = "resolved",
                          ![p].patient_id =
                              FormatPatientId(CountDistinctPatientId(patient_records) + 1),
                          ![p].counted_at = seq_patient]
            /\ UNCHANGED resp
    /\ UNCHANGED <<patient_records, seq_patient, now, userVars, backupVars>>

ReqInsertRenumbering(p, fault) ==
    /\ req[p].op = "create"
    /\ req[p].pc = "resolved"
    /\ IF fault = "store"
       THEN /\ CreateFailed(p, req[p])
            /\ UNCHANGED <<patient_records, seq_patient>>
       ELSE /\ patient_records' = patient_records \cup
                   {NewRow(seq_patient + 1, req[p].user_id,
                           FormatPatientId(seq_patient + 1), req[p].record, now)}
            /\ seq_patient' = seq_patient + 1
            /\ req' = [req EXCEPT ![p].pc = "inserted", ![p].rowid = seq_patient + 1]
            /\ UNCHANGED resp
    /\ UNCHANGED <<now, userVars, backupVars>>

\* INSERT INTO patient_records ... ; commit
ReqInsert(p, fault) ==
    /\ req[p].op = "create"
    /\ req[p].pc = "resolved"
    /\ IF fault = "store"
       THEN /\ CreateFailed(p, req[p])
            /\ UNCHANGED <<patient_records, seq_patient>>
       ELSE /\ patient_records' = patient_records \cup
                   {NewRow(seq_patient + 1, req[p].user_id, req[p].patient_id,
                           req[p].record, now)}
            /\ seq_patient' = seq_patient + 1
            /\ req' = [req EXCEPT ![p].pc = "inserted", ![p].rowid = seq_patient + 1]
            /\ UNCHANGED resp
    /\ UNCHANGED <<now, userVars, backupVars>>

\* SELECT * FROM patient_records WHERE id = ?: the row is returned, or, when it
\* is gone, the handler goes on to check_and_backup_if_needed()
ReqFetch(p, fault) ==
    LET fetched == {r \in patient_records : r.id = req[p].rowid} IN
    /\ req[p].op = "create"
    /\ req[p].pc = "inserted"
    /\ IF fault = "store"
       THEN /\ CreateFailed(p, req[p])
            /\ UNCHANGED bk
       ELSE IF fetched # {}
       THEN /\ req' = [req EXCEPT ![p] = Answered(req[p], 200)]
            /\ resp' = Response("create", 200, fetched, req[p].rowid,
                                req[p].record.patient_name, req[p].patient_id,
                                Matched(req[p]), FALSE)
            /\ UNCHANGED bk
       ELSE /\ bk.pc = "Idle"
            /\ req' = [req EXCEPT ![p].pc = "checking"]
            /\ bk' = BkStarted(p)
            /\ UNCHANGED resp
    /\ UNCHANGED <<patient_records, seq_patient, now, userVars, db_size_bytes,
                   drive_connected, sync_log, drive_files>>

\* the check returned: the handler returns None, which fails the validation of
\* the response model (an exception out of the check is answered as 500 too)
ReqReturn(p) ==
    /\ req[p].op = "create"
    /\ req[p].pc = "checking"
    /\ bk.caller = p
    /\ bk.pc \in Terminal
    /\ req' = [req EXCEPT ![p] = Answered(req[p], 500)]
    /\ resp' = Response("create", 500, {}, req[p].rowid, req[p].record.patient_name,
                        NoId, Matched(req[p]), TRUE)
    /\ bk' = BkIdle
    /\ UNCHANGED <<patient_records, seq_patient, now, userVars, db_size_bytes,
                   drive_connected, sync_log, drive_files>>

----------------------------------------------------------------------------
(* Database.get_next_patient_id called on its own *)

\* first SELECT: a matching row ends the call with its patient_id
ResolveLookup(p, patient_name) ==
    LET matching == MatchingRows(patient_records, patient_name)
        r == [ReqIdle EXCEPT !.op = "resolve",
                             !.record = [NoRecord EXCEPT !.patient_name = patient_name],
                             !.looked_at = seq_patient]
    IN
    /\ Free(p)
    /\ IF matching # {}
       THEN /\ req' = [req EXCEPT ![p] =
                          Answered([r EXCEPT !.patient_id =
                                                FirstRow(matching).patient_id], 200)]
            /\ resp' = Response("resolve", 200, {}, 0, patient_name,
                                FirstRow(matching).patient_id, TRUE, FALSE)
       ELSE /\ req' = [req EXCEPT ![p] = [r EXCEPT !.pc = "counting"]]
            /\ UNCHANGED resp
    /\ UNCHANGED <<patient_records, seq_patient, now, userVars, backupVars>>

\* second SELECT: the call returns P and the count plus one
ResolveCount(p) ==
    LET patient_id == FormatPatientId(CountDistinctPatientId(patient_records) + 1) IN
    /\ req[p].op = "resolve"
    /\ req[p].pc = "counting"
    /\ req' = [req EXCEPT ![p] =
                 Answered([req[p] EXCEPT !.patient_id = patient_id,
                                         !.counted_at = seq_patient], 200)]
    /\ resp' = Response("resolve", 200, {}, 0, req[p].record.patient_name,
                        patient_id, FALSE, FALSE)
    /\ UNCHANGED <<patient_records, seq_patient, now, userVars, backupVars>>

----------------------------------------------------------------------------
(* GET /patients/{record_id}, GET /patients, POST /export-records *)

\* free text spelled out, for the statements that look inside it
Spell(text) ==
    CASE text = "flu" -> <<"f", "l", "u">>
      [] text = "cold" -> <<"c", "o", "l", "d">>
      [] text = "aspirin" -> <<"a", "s", "p", "i", "r", "i", "n">>
      [] OTHER -> << >>

\* a column value as the driver returns it: an int or a str
Num(n) == [kind |-> "int", n |-> n, s |-> << >>]
Text(s) == [kind |-> "str", n |-> 0, s |-> s]

\* SELECT *: the columns in table order, row[0] is Columns(r)[1]
Columns(r) ==
    <<Num(r.id), Num(r.user_id), Text(r.patient_id), Text(r.patient_name),
      Text(Spell(r.diagnosis_details)), Text(Spell(r.medicine_names)),
      Num(r.created_at), Num(r.updated_at)>>

RECURSIVE AscendingById(_)
\* ORDER BY id ASC
AscendingById(rows) ==
    IF rows = {} THEN << >>
    ELSE <<FirstRow(rows)>> \o AscendingById(rows \ {FirstRow(rows)})

\* ORDER BY id DESC
DescendingById(rows) ==
    [i \in 1..Cardinality(rows) |->
        AscendingById(rows)[Cardinality(rows) + 1 - i]]

\* the keyword arguments get_patient_record passes to PatientRecord(...)
FieldsGivenOnGet ==
    {"id", "patient_id", "patient_name", "diagnosis_details", "medicine_names",
     "created_at", "updated_at"}

GetFaults == {"none", "store"}

get_patient_record(record_id, fault) ==
    LET fetched == {r \in patient_records : r.id = record_id} IN
    /\ resp' = IF fault = "store"
               THEN \* except Exception: HTTPException(404, "Record not found")
                    Response("get", 404, {}, record_id, EmptyName, NoId, FALSE, FALSE)
               ELSE IF fetched = {}
               THEN \* HTTPException(404, "Record not found")
                    Response("get", 404, {}, record_id, EmptyName, NoId, FALSE, FALSE)
               ELSE IF Validates(FieldsGivenOnGet)
               THEN Response("get", 200, fetched, record_id, EmptyName, NoId,
                             FALSE, FALSE)
               ELSE \* ValidationError, caught by except Exception: 404
                    Response("get", 404, {}, record_id, EmptyName, NoId, FALSE, FALSE)
    /\ UNCHANGED <<patient_records, seq_patient, now>>

GetRecord == \E record_id \in 1..MaxRecords, fault \in GetFaults :
                 get_patient_record(record_id, fault)

\* "store": the SELECT raises, answered as 500 by except Exception
ExportFaults == {"none", "store"}

\* export_records: one dict per row, keyed as in the source
ExportEntry(r) ==
    [ID |-> Columns(r)[1],
     PatientID |-> Columns(r)[2],
     PatientName |-> Columns(r)[3],
     DiagnosisDetails |-> Columns(r)[4],
     MedicineNames |-> Columns(r)[5],
     CreatedAt |-> Columns(r)[6]]

export_records(fault) ==
    LET rows == AscendingById(patient_records)
        export_data == [i \in 1..Len(rows) |-> ExportEntry(rows[i])]
    IN
    /\ resp' = IF fault = "store"
               THEN Response("export", 500, {}, 0, EmptyName, NoId, FALSE, FALSE)
               ELSE Response("export", 200,
                             {[records |-> export_data, total |-> Len(export_data)]},
                             0, EmptyName, NoId, FALSE, FALSE)
    /\ UNCHANGED <<patient_records, seq_patient, now>>

\* text LIKE '%' || search || '%' for a search without % and _
Contains(text, search) ==
    \E i \in 0..(Len(text) - Len(search)) :
        SubSeq(text, i + 1, i + Len(search)) = search

SearchingNamesOnly(r, search) ==
    Contains(Lower(r.patient_name), Lower(search))

\* LOWER(patient_name) LIKE LOWER(?) OR LOWER(patient_id) LIKE LOWER(?) OR
\* LOWER(diagnosis_details) LIKE LOWER(?) OR LOWER(medicine_names) LIKE LOWER(?)
SearchMatches(r, search) ==
    \/ Contains(Lower(r.patient_name), Lower(search))
    \/ Contains(Lower(r.patient_id), Lower(search))
    \/ Contains(Lower(Spell(r.diagnosis_details)), Lower(search))
    \/ Contains(Lower(Spell(r.medicine_names)), Lower(search))

\* the clock of the listing counts days
RecentDays == 7

\* created_at >= datetime('now', '-7 days')
Recent(r) == r.created_at >= now - RecentDays

\* if user_id: an int is truthy unless it is 0
TruthyInt(o) == \E v \in o : v # 0

\* "store": the SELECT raises, answered as 500 by except Exception
ListFaults == {"none", "store"}

\* the four SELECTs of get_all_patients
ListedRows(user_id, search) ==
    {r \in patient_records :
        /\ TruthyInt(user_id) => r.user_id = TheValue(user_id)
        /\ IF TruthyName(search) THEN SearchMatches(r, TheValue(search)) ELSE Recent(r)}

get_all_patients(user_id, search, fault) ==
    /\ resp' = IF fault = "store"
               THEN Response("list", 500, {}, 0, EmptyName, NoId, FALSE, FALSE)
               ELSE Response("list", 200,
                             {[records |-> DescendingById(ListedRows(user_id, search))]},
                             0, EmptyName, NoId, FALSE, FALSE)
    /\ UNCHANGED <<patient_records, seq_patient, now>>

UserFilters == {None} \cup {Some(u) : u \in UserIds}

JOHN == <<"J", "O", "H", "N">>

Searches ==
    {None} \cup {Some(FormatPatientId(n)) : n \in 1..MaxRecords} \cup {Some(JOHN)}

ListRecords == \E user_id \in UserFilters, search \in Searches, fault \in ListFaults :
                   get_all_patients(user_id, search, fault)

ExportRecords == \E fault \in ExportFaults : export_records(fault)

MaxWeeks == 1

\* more than seven days pass
Elapse ==
    /\ now < MaxWeeks * (RecentDays + 1)
    /\ now' = now + RecentDays + 1
    /\ UNCHANGED <<patient_records, seq_patient, resp>>

----------------------------------------------------------------------------
(* POST /auth/register, one step per awaited statement *)

Phones == {"555-0100", "555-0101"}

\* "store": the statement raises (sqlite3.OperationalError)
RegFaults == {"none", "store"}

AlreadyRegistered == "Phone number already registered"
UniqueFailed == "UNIQUE constraint failed: users.phone_number"
StoreFailed == "database is locked"

\* SELECT id FROM users WHERE phone_number = ?
UsersWithPhone(phone_number) == {u \in users : u.phone_number = phone_number}

\* except HTTPException: raise / except Exception: HTTPException(500, str(e))
RegRaised(r, status, detail) ==
    [r EXCEPT !.pc = "done", !.status = status, !.detail = detail]

\* the existence check: HTTPException(400) when the phone is registered
RegCheck(p, phone_number, fault) ==
    LET r == [RegIdle EXCEPT !.phone_number = phone_number] IN
    /\ reg[p].pc = "idle"
    /\ reg' = [reg EXCEPT ![p] =
                 IF fault = "store"
                 THEN RegRaised(r, 500, StoreFailed)
                 ELSE IF UsersWithPhone(phone_number) # {}
                 THEN RegRaised(r, 400, AlreadyRegistered)
                 ELSE [r EXCEPT !.pc = "checked", !.passed = TRUE]]
    /\ UNCHANGED <<users, seq_user>>
    /\ UNCHANGED <<patient_records, seq_patient, now, resp, backupVars, req>>

RegInsertWithoutUnique(p, fault) ==
    /\ reg[p].pc = "checked"
    /\ IF fault = "store"
       THEN /\ reg' = [reg EXCEPT ![p] = RegRaised(reg[p], 500, StoreFailed)]
            /\ UNCHANGED <<users, seq_user>>
       ELSE /\ users' = users \cup {[id |-> seq_user + 1,
                                     phone_number |-> reg[p].phone_number]}
            /\ seq_user' = seq_user + 1
            /\ reg' = [reg EXCEPT ![p].pc = "inserted", ![p].rowid = seq_user + 1]
    /\ UNCHANGED <<patient_records, seq_patient, now, resp, backupVars, req>>

\* INSERT INTO users ...; commit.  phone_number is UNIQUE: a second row with
\* the phone raises IntegrityError; every exception of the statement or of
\* the commit is answered as 500 by except Exception, with no row written
RegInsert(p, fault) ==
    /\ reg[p].pc = "checked"
    /\ IF fault = "store"
       THEN /\ reg' = [reg EXCEPT ![p] = RegRaised(reg[p], 500, StoreFailed)]
            /\ UNCHANGED <<users, seq_user>>
       ELSE IF UsersWithPhone(reg[p].phone_number) # {}
       THEN /\ reg' = [reg EXCEPT ![p] = RegRaised(reg[p], 500, UniqueFailed)]
            /\ UNCHANGED <<users, seq_user>>
       ELSE /\ users' = users \cup {[id |-> seq_user + 1,
                                     phone_number |-> reg[p].phone_number]}
            /\ seq_user' = seq_user + 1
            /\ reg' = [reg EXCEPT ![p].pc = "inserted", ![p].rowid = seq_user + 1]
    /\ UNCHANGED <<patient_records, seq_patient, now, resp, backupVars, req>>

\* SELECT * FROM users WHERE id = ?; return User(...).  An exception here is
\* answered as 500 with the user row already committed
RegFetch(p, fault) ==
    /\ reg[p].pc = "inserted"
    /\ reg' = [reg EXCEPT ![p] =
                 IF fault = "store"
                 THEN RegRaised(reg[p], 500, StoreFailed)
                 ELSE IF \E u \in users : u.id = reg[p].rowid
                 THEN [reg[p] EXCEPT !.pc = "done", !.status = 200]
                 ELSE RegRaised(reg[p], 500, "")]
    /\ UNCHANGED <<users, seq_user>>
    /\ UNCHANGED <<patient_records, seq_patient, now, resp, backupVars, req>>

----------------------------------------------------------------------------
(* Specifications *)

\* no request is between two of its statements
Quiet == \A p \in Clients : Free(p)

\* a step in which a create request read its row back and answered with success
CreatedStep ==
    \E p \in Clients :
        /\ req[p].op = "create"
        /\ req[p].pc = "inserted"
        /\ req'[p].pc = "done"
        /\ req'[p].status = 200

\* the history variable follows the successful creates
RecordIssued ==
    issued' = IF CreatedStep
              THEN issued \cup {<<Lower(resp'.name), resp'.patient_id>>}
              ELSE issued

\* requests of every kind issued one after another by one client, each run
\* statement by statement to its answer, all within one clock second
Next ==
    \/ \E record \in CreateInputs, user_id \in UserIds, fault \in CreateFaults :
           /\ seq_patient < MaxRecords
           /\ ReqLookup(1, record, user_id, fault)
           /\ UNCHANGED issued
    \/ \E fault \in CreateFaults : ReqCount(1, fault) /\ UNCHANGED issued
    \/ \E fault \in CreateFaults : ReqInsert(1, fault) /\ UNCHANGED issued
    \/ \E fault \in CreateFaults : ReqFetch(1, fault) /\ UNCHANGED issued
    \/ \E record_id \in 1..MaxRecords, update_data \in UpdateInputs,
          fault \in UpdateFaults :
           UpdateCommit(1, record_id, update_data, fault) /\ UNCHANGED issued
    \/ \E fault \in UpdateFaults : UpdateFetch(1, fault) /\ UNCHANGED issued
    \/ Quiet /\ Delete(MaxRecords) /\ UNCHANGED <<issued, userVars, backupVars, req>>
    \/ \E patient_name \in Names : ResolveLookup(1, patient_name) /\ UNCHANGED issued
    \/ ResolveCount(1) /\ UNCHANGED issued

Spec == Init /\ [][Next]_vars

\* client 1 creating records while client 2 updates them and records are
\* deleted and exported, each between any two statements of the others; a
\* create whose row is deleted before its read-back runs the storage check;
\* one name to create and one to rename to are enough for the interleavings
MixedCreates == {record \in CreateInputs : record.patient_name = JohnDoe}

MixedUpdates ==
    {update_data \in UpdateInputs :
        /\ update_data.patient_name \in {None, Some(JaneSmith)}
        /\ update_data.medicine_names = None}

NextMixed ==
    \/ \E record \in MixedCreates, user_id \in UserIds, fault \in CreateFaults :
           /\ seq_patient < MaxRecords
           /\ ReqLookup(1, record, user_id, fault)
           /\ UNCHANGED issued
    \/ \E fault \in CreateFaults : ReqCount(1, fault) /\ UNCHANGED issued
    \/ \E fault \in CreateFaults : ReqInsert(1, fault) /\ UNCHANGED issued
    \/ \E fault \in CreateFaults : ReqFetch(1, fault) /\ UNCHANGED issued
    \/ \E record_id \in 1..MaxRecords, update_data \in MixedUpdates,
          fault \in UpdateFaults :
           UpdateCommit(2, record_id, update_data, fault) /\ UNCHANGED issued
    \/ \E fault \in UpdateFaults : UpdateFetch(2, fault) /\ UNCHANGED issued
    \/ ReqReturn(1) /\ UNCHANGED issued
    \/ BkStep /\ UNCHANGED issued
    \/ Delete(MaxRecords) /\ UNCHANGED <<issued, userVars, backupVars, req>>
    \/ ExportRecords /\ UNCHANGED <<issued, userVars, backupVars, req>>

SpecMixed == Init /\ [][NextMixed]_vars

\* creates only, one after another, with time passing
NextCreate ==
    \/ \E record \in CreateInputs, user_id \in UserIds, fault \in CreateFaults :
           /\ seq_patient < MaxCreates
           /\ ReqLookup(1, record, user_id, fault)
           /\ UNCHANGED issued
    \/ \E fault \in CreateFaults : ReqCount(1, fault) /\ UNCHANGED issued
    \/ \E fault \in CreateFaults : ReqInsert(1, fault) /\ UNCHANGED issued
    \/ \E fault \in CreateFaults : ReqFetch(1, fault) /\ UNCHANGED issued
    \/ Tick /\ UNCHANGED <<issued, userVars, backupVars, req>>

SpecCreate == Init /\ [][NextCreate]_vars

\* creates and deletes only, one after another, with the history of the ids
\* handed out
NextCD ==
    \/ \E record \in CreateInputs, user_id \in UserIds, fault \in CreateFaults :
           /\ seq_patient < MaxCreates
           /\ ReqLookup(1, record, user_id, fault)
           /\ RecordIssued
    \/ \E fault \in CreateFaults : ReqCount(1, fault) /\ RecordIssued
    \/ \E fault \in CreateFaults : ReqInsert(1, fault) /\ RecordIssued
    \/ \E fault \in CreateFaults : ReqFetch(1, fault) /\ RecordIssued
    \/ Quiet /\ Delete(MaxCreates) /\ RecordIssued /\ UNCHANGED <<backupVars, req, userVars>>

SpecCD == Init /\ [][NextCD]_vars

\* creates and deletes with the reading requests, over more than a week
NextRead ==
    \/ \E record \in CreateInputs, user_id \in UserIds, fault \in CreateFaults :
           /\ seq_patient < MaxRecords
           /\ ReqLookup(1, record, user_id, fault)
           /\ UNCHANGED issued
    \/ \E fault \in CreateFaults : ReqCount(1, fault) /\ UNCHANGED issued
    \/ \E fault \in CreateFaults : ReqInsert(1, fault) /\ UNCHANGED issued
    \/ \E fault \in CreateFaults : ReqFetch(1, fault) /\ UNCHANGED issued
    \/ Quiet /\ Delete(MaxRecords) /\ UNCHANGED <<issued, userVars, backupVars, req>>
    \/ Quiet /\ GetRecord /\ UNCHANGED <<issued, userVars, backupVars, req>>
    \/ Quiet /\ ListRecords /\ UNCHANGED <<issued, userVars, backupVars, req>>
    \/ Quiet /\ ExportRecords /\ UNCHANGED <<issued, userVars, backupVars, req>>
    \/ Quiet /\ Elapse /\ UNCHANGED <<issued, userVars, backupVars, req>>

SpecRead == Init /\ [][NextRead]_vars

\* register requests, concurrent or one after another
NextRegister ==
    \/ \E p \in Registrants, phone_number \in Phones, fault \in RegFaults :
           RegCheck(p, phone_number, fault) /\ UNCHANGED issued
    \/ \E p \in Registrants, fault \in RegFaults : RegInsert(p, fault) /\ UNCHANGED issued
    \/ \E p \in Registrants, fault \in RegFaults : RegFetch(p, fault) /\ UNCHANGED issued

SpecRegister == Init /\ [][NextRegister]_vars

\* the owner of a record does not depend on its name: one name is enough here
UserInputs == {record \in CreateInputs : record.patient_name = JohnDoe}

\* clients registering at the same time, and records being created
NextUsers ==
    \/ \E p \in Clients, phone_number \in Phones, fault \in RegFaults :
           RegCheck(p, phone_number, fault) /\ UNCHANGED issued
    \/ \E p \in Clients, fault \in RegFaults : RegInsert(p, fault) /\ UNCHANGED issued
    \/ \E p \in Clients, fault \in RegFaults : RegFetch(p, fault) /\ UNCHANGED issued
    \/ \E record \in UserInputs, user_id \in UserIds, fault \in CreateFaults :
           /\ seq_patient < MaxRecords
           /\ ReqLookup(1, record, user_id, fault)
           /\ UNCHANGED issued
    \/ \E fault \in CreateFaults : ReqCount(1, fault) /\ UNCHANGED issued
    \/ \E fault \in CreateFaults : ReqInsert(1, fault) /\ UNCHANGED issued
    \/ \E fault \in CreateFaults : ReqFetch(1, fault) /\ UNCHANGED issued

SpecUsers == Init /\ [][NextUsers]_vars

\* the backup does not depend on the name: one request body is enough here
BackupInputs == {record \in CreateInputs : record.patient_name = JohnDoe}

\* client 1 creating records while records are deleted, the database file
\* grows, the Drive account is linked and client 2 asks for a backup: the
\* automatic and the manual backup
NextBackup ==
    \/ \E record \in BackupInputs, user_id \in UserIds :
           /\ seq_patient < MaxBackupCreates
           /\ ReqLookup(1, record, user_id, "none")
           /\ UNCHANGED issued
    \/ ReqCount(1, "none") /\ UNCHANGED issued
    \/ ReqInsert(1, "none") /\ UNCHANGED issued
    \/ ReqFetch(1, "none") /\ UNCHANGED issued
    \/ ReqReturn(1) /\ UNCHANGED issued
    \/ \E fault \in StatsFaults : BkCount(fault) /\ UNCHANGED issued
    \/ BkSize /\ UNCHANGED issued
    \/ \E fault \in StatusFaults : BkStatus(fault) /\ UNCHANGED issued
    \/ \E fault \in BackupFaults : BkAuthorize(fault) /\ UNCHANGED issued
    \/ \E fault \in BackupFaults : BkUpload(fault) /\ UNCHANGED issued
    \/ \E fault \in BackupFaults : BkLog(fault) /\ UNCHANGED issued
    \/ \E record_id \in 1..MaxBackupCreates :
           delete_patient_record(record_id, "none")
               /\ UNCHANGED <<issued, userVars, backupVars, req>>
    \/ StoreGrows /\ UNCHANGED issued
    \/ drive_callback("none") /\ UNCHANGED issued
    \/ \E fault \in BackupFaults :
           /\ Len(drive_files) < MaxUploads
           /\ BackupAuthorize(2, fault)
           /\ UNCHANGED issued
    \/ \E fault \in BackupFaults : BackupUpload(2, fault) /\ UNCHANGED issued
    \/ \E fault \in BackupFaults : BackupLog(2, fault) /\ UNCHANGED issued

SpecBackup == Init /\ [][NextBackup]_vars

\* client 2 asking for the storage statistics while client 1 creates records,
\* records are deleted and the database file grows
NextStats ==
    \/ \E record \in BackupInputs, user_id \in UserIds :
           /\ seq_patient < MaxBackupCreates
           /\ ReqLookup(1, record, user_id, "none")
           /\ UNCHANGED issued
    \/ ReqCount(1, "none") /\ UNCHANGED issued
    \/ ReqInsert(1, "none") /\ UNCHANGED issued
    \/ \E fault \in CreateFaults : ReqFetch(1, fault) /\ UNCHANGED issued
    \/ Free(1) /\ Delete(MaxBackupCreates) /\ UNCHANGED <<issued, userVars, backupVars, req>>
    \/ StoreGrows /\ UNCHANGED issued
    \/ \E fault \in StatsFaults : StatsCount(2, fault) /\ UNCHANGED issued
    \/ StatsSize(2) /\ UNCHANGED issued

SpecStats == Init /\ [][NextStats]_vars

\* the automatic backup alone, as in SpecBackup without client 2
NextTrigger ==
    \/ \E record \in BackupInputs, user_id \in UserIds :
           /\ seq_patient < MaxBackupCreates
           /\ ReqLookup(1, record, user_id, "none")
           /\ UNCHANGED issued
    \/ ReqCount(1, "none") /\ UNCHANGED issued
    \/ ReqInsert(1, "none") /\ UNCHANGED issued
    \/ ReqFetch(1, "none") /\ UNCHANGED issued
    \/ ReqReturn(1) /\ UNCHANGED issued
    \/ \E fault \in StatsFaults : BkCount(fault) /\ UNCHANGED issued
    \/ BkSize /\ UNCHANGED issued
    \/ \E fault \in StatusFaults : BkStatus(fault) /\ UNCHANGED issued
    \/ \E fault \in BackupFaults : BkAuthorize(fault) /\ UNCHANGED issued
    \/ \E fault \in BackupFaults : BkUpload(fault) /\ UNCHANGED issued
    \/ \E fault \in BackupFaults : BkLog(fault) /\ UNCHANGED issued
    \/ \E record_id \in 1..MaxBackupCreates :
           delete_patient_record(record_id, "none")
               /\ UNCHANGED <<issued, userVars, backupVars, req>>
    \/ StoreGrows /\ UNCHANGED issued
    \/ drive_callback("none") /\ UNCHANGED issued

\* the event loop keeps running a coroutine that can go on
SpecBackupFair ==
    Init /\ [][NextTrigger]_vars /\ WF_vars(BkStep /\ UNCHANGED issued)

\* several clients creating records and resolving names at the same time
NextConc ==
    \/ \E p \in Clients, record \in CreateInputs, user_id \in UserIds :
           /\ req[p].pc = "idle"
           /\ ReqLookup(p, record, user_id, "none")
           /\ UNCHANGED issued
    \/ \E p \in Clients : ReqCount(p, "none") /\ UNCHANGED issued
    \/ \E p \in Clients : ReqInsert(p, "none") /\ UNCHANGED issued
    \/ \E p \in Clients : ReqFetch(p, "none") /\ UNCHANGED issued
    \/ \E p \in Clients, patient_name \in Names :
           /\ req[p].pc = "idle"
           /\ ResolveLookup(p, patient_name)
           /\ UNCHANGED issued
    \/ \E p \in Clients : ResolveCount(p) /\ UNCHANGED issued

SpecConc == Init /\ [][NextConc]_vars

----------------------------------------------------------------------------
(* Properties *)

\* the step ends a request of client p running handler op with its answer
AnsweredBy(p, op) ==
    /\ req'[p] # req[p]
    /\ req'[p].pc = "done"
    /\ req'[p].op = op

P0001 == <<"P", "0", "0", "0", "1">>
P0002 == <<"P", "0", "0", "0", "2">>

SameName(a, b) == Lower(a) = Lower(b)

Unmatched(name) == \A r \in patient_records : ~SameName(r.patient_name, name)

\* C1: any two persisted records whose names are equal ignoring case carry
\* the same patient_id
C1_SameNameSameId ==
    \A r, q \in patient_records :
        SameName(r.patient_name, q.patient_name) => r.patient_id = q.patient_id

\* C2: any two persisted records whose names differ ignoring case carry
\* different patient_ids
C2_DifferentNameDifferentId ==
    \A r, q \in patient_records :
        ~SameName(r.patient_name, q.patient_name) => r.patient_id # q.patient_id

\* C3: the patient_id a create returns for a brand-new name was never
\* returned by an earlier create for a different name
C3_NeverReused ==
    [][(CreatedStep /\ ~resp'.matched) =>
          \A e \in issued : e[1] # Lower(resp'.name) => e[2] # resp'.patient_id]_vars

\* C4: no request changes the patient_id (nor the user_id or created_at) of a
\* row that already exists
C4_PatientIdImmutable ==
    [][\A r \in patient_records : \A q \in patient_records' :
          q.id = r.id => /\ q.patient_id = r.patient_id
                         /\ q.user_id = r.user_id
                         /\ q.created_at = r.created_at]_vars

C4_Witness ==
    /\ resp.op = "update"
    /\ \E r \in patient_records :
          /\ r.id = resp.rowid
          /\ r.patient_name = JaneSmith
          /\ r.diagnosis_details = "cold"
          /\ r.patient_id = P0001

\* C5: get_next_patient_id answers the same id for every spelling of a name
\* that differs only in case, against the same store, and writes nothing
C5_ResolveIgnoresCase ==
    [][(\E p \in Clients : AnsweredBy(p, "resolve")) =>
          /\ patient_records' = patient_records
          /\ seq_patient' = seq_patient
          /\ \A b \in Names : SameName(b, resp'.name) =>
                 get_next_patient_id(b) = resp'.patient_id]_vars

C5_Witness ==
    /\ resp.op = "resolve"
    /\ resp.name = johndoe
    /\ resp.matched
    /\ \A r \in patient_records : r.patient_name # johndoe
    /\ \E r \in patient_records :
          r.patient_name = JohnDoe /\ r.patient_id = resp.patient_id

\* C6: two names that differ ignoring case and match no persisted record
\* resolve to different ids
C6_NewNamesResolveApart ==
    \A a, b \in Names :
        (~SameName(a, b) /\ Unmatched(a) /\ Unmatched(b)) =>
            get_next_patient_id(a) # get_next_patient_id(b)

\* "P" followed by the four decimal digits of k, most significant first
PaddedDecimal4(k) ==
    <<"P", DigitChar[((k \div 1000) % 10) + 1], DigitChar[((k \div 100) % 10) + 1],
      DigitChar[((k \div 10) % 10) + 1], DigitChar[(k % 10) + 1]>>

\* C7: for a name matching no record, get_next_patient_id is "P" and the
\* 4-digit zero-padded count of distinct patient_ids plus one; P0001 on an
\* empty store
C7_FreshIdFormat ==
    \A n \in Names : Unmatched(n) =>
        /\ get_next_patient_id(n) =
              PaddedDecimal4(Cardinality({r.patient_id : r \in patient_records}) + 1)
        /\ patient_records = {} => get_next_patient_id(n) = P0001

C7_Witness ==
    /\ resp.op = "resolve"
    /\ ~resp.matched
    /\ resp.patient_id = P0002
    /\ Unmatched(resp.name)
    /\ Cardinality(patient_records) = 2

RowAt(i) == CHOOSE r \in patient_records : r.id = i

\* C8: creating one after another from an empty store, John Doe gets P0001,
\* john doe P0001 again, Jane Smith P0002; a create whose name equals an
\* existing record's ignoring case returns that record's id, a create with a
\* different name returns a different id
C8_SequentialCreates ==
    [][CreatedStep =>
          LET earlier == {r \in patient_records : r.id < resp'.rowid} IN
          /\ \A r \in resp'.body : r.patient_id = resp'.patient_id
          /\ \A r \in earlier :
                IF SameName(r.patient_name, resp'.name)
                THEN resp'.patient_id = r.patient_id
                ELSE resp'.patient_id # r.patient_id
          /\ (earlier = {} /\ resp'.name = JohnDoe) =>
                resp'.patient_id = P0001
          /\ ({r.patient_name : r \in earlier} = {JohnDoe}
                 /\ resp'.name = johndoe) => resp'.patient_id = P0001
          /\ ({r.patient_name : r \in earlier} = {JohnDoe, johndoe}
                 /\ resp'.name = JaneSmith) => resp'.patient_id = P0002]_vars

C8_Witness ==
    /\ resp.op = "create"
    /\ resp.status = 200
    /\ resp.name = JaneSmith
    /\ resp.patient_id = P0002
    /\ {r.id : r \in patient_records} = {1, 2, 3}
    /\ RowAt(1).patient_name = JohnDoe /\ RowAt(1).patient_id = P0001
    /\ RowAt(2).patient_name = johndoe /\ RowAt(2).patient_id = P0001
    /\ RowAt(3).patient_name = JaneSmith /\ RowAt(3).patient_id = P0002

\* C9: a create request that persisted its record ran the post-write storage
\* check before it completed
C9_BackupCheckAfterInsert ==
    (resp.op = "create" /\ resp.rowid # 0) => resp.backup_checked

\* C10: a create that answers with an error persisted nothing; a create that
\* answers with success persisted exactly the one record it returns
C10_CreateAllOrNothing ==
    [][\A p \in Clients : AnsweredBy(p, "create") =>
          LET mine == {r \in patient_records' : r.id = req'[p].rowid} IN
          IF resp'.status = 200
          THEN /\ Cardinality(mine) = 1
               /\ resp'.body = mine
               /\ \A r \in mine : r.patient_id = resp'.patient_id
          ELSE mine = {}]_vars

Pct(bytes) == StorageStats(Cardinality(patient_records), bytes).storage_percentage

\* a step of the running invocation of check_and_backup_if_needed
BkMoves == bk' # bk

\* C11: a failure inside the backup trigger is swallowed: no exception leaves
\* check_and_backup_if_needed, the create request that ran the failed check
\* is answered with success, and the record it wrote is still persisted
C11_BackupFailureSwallowed ==
    [][/\ ~bk'.raised
       /\ \A p \in Clients :
             (AnsweredBy(p, "create") /\ bk.pc = "Failed" /\ bk.caller = p) =>
                 /\ resp'.status = 200
                 /\ \E r \in patient_records' : r.id = req[p].rowid]_vars

\* C12: an automatic backup whose upload failed leaves a sync_log row with
\* status 'failed'
C12_FailedUploadLogged ==
    (bk.pc = "Failed" /\ bk.attempts = 1) =>
        /\ sync_log # << >>
        /\ sync_log[Len(sync_log)].status = "failed"

\* C13: at or above 80% with the remote link not connected the check raises
\* nothing, tries no upload and writes no sync_log row: it ends as Skipped
C13_SkippedWithoutLink ==
    [][(/\ BkMoves
        /\ bk.pc = "Evaluating"
        /\ bk.needs
        /\ Pct(db_size_bytes) >= 8000
        /\ ~drive_connected) =>
            /\ bk'.pc = "SkippedNoLink"
            /\ ~bk'.raised
            /\ bk'.attempts = 0
            /\ sync_log' = sync_log
            /\ drive_files' = drive_files]_vars

C13_Witness ==
    /\ bk.pc = "SkippedNoLink"
    /\ Pct(db_size_bytes) >= 8000
    /\ ~drive_connected
    /\ sync_log = << >>

\* C14: needs_backup is true exactly when the utilisation, bytes over the
\* 50 MB quota times 100 rounded to two decimals, is at least 80: true at
\* 80.0, false at 79.99, and 45 MB gives 90.0 and true
C14_NeedsBackupAtEighty ==
    [][(resp'.op = "storage-stats" /\ resp' # resp) =>
          \A st \in resp'.body :
             /\ st.needs_backup <=> st.storage_percentage >= 8000
             \* the nearest hundredth of bytes * 100 / (50 * 1024 * 1024)
             /\ 2 * (st.storage_percentage * 131072 - db_size_bytes * 25) <= 131072
             /\ 2 * (db_size_bytes * 25 - st.storage_percentage * 131072) <= 131072
             /\ db_size_bytes = 41943040 =>
                   (st.storage_percentage = 8000 /\ st.needs_backup)
             /\ db_size_bytes = 41938944 =>
                   (st.storage_percentage = 7999 /\ ~st.needs_backup)
             /\ db_size_bytes = 45 * 1024 * 1024 =>
                   (st.storage_percentage = 9000 /\ st.needs_backup)]_vars

C14_Witness ==
    /\ resp.op = "storage-stats"
    /\ \E st \in resp.body : st.storage_percentage = 8000 /\ st.needs_backup

\* C15: the automatic backup uploads only at or above 80% with the remote
\* link connected; when the file size it reads is below 80% the check ends
\* there, and up to that point it queries no remote status, uploads nothing
\* and writes no sync_log row
C15_UploadOnlyAboveThreshold ==
    [][/\ bk'.attempts > bk.attempts =>
             (Pct(db_size_bytes) >= 8000 /\ drive_connected)
       /\ (BkMoves /\ bk.pc = "Evaluating" /\ bk.stage = "size"
              /\ Pct(db_size_bytes) < 8000) => bk'.pc = "SkippedBelow"
       /\ (BkMoves /\ bk.pc = "Evaluating" /\ ~bk.needs) =>
             /\ bk'.pc = "Evaluating" => ~bk'.queried
             /\ bk'.pc \in {"SkippedBelow", "Failed"} =>
                   (~bk'.queried /\ bk'.attempts = 0)
             /\ sync_log' = sync_log
             /\ drive_files' = drive_files]_vars

C15_Witness ==
    /\ bk.pc = "SkippedBelow"
    /\ drive_connected
    /\ Pct(db_size_bytes) = 7999

\* the uploaded files whose sync_log row a backup in flight has yet to insert
AwaitingLog ==
    {req[p].file : p \in {q \in Clients : req[q].op = "backup" /\ req[q].pc = "uploaded"}}
       \cup (IF bk.pc = "Uploading" /\ bk.stage = "log" THEN {bk.file} ELSE {})

SuccessRows == {sync_log[i] : i \in {j \in 1..Len(sync_log) : sync_log[j].status = "success"}}

\* C16: every file uploaded by a backup that has ended has exactly one
\* sync_log row with status 'success', holding the remote id and byte size
\* the upload returned, and every such row belongs to an uploaded file
C16_SuccessRowPerUpload ==
    /\ \A i \in 1..Len(drive_files) :
          drive_files[i] \notin AwaitingLog =>
              Cardinality({j \in 1..Len(sync_log) :
                              /\ sync_log[j].status = "success"
                              /\ sync_log[j].drive_file_id = drive_files[i].id
                              /\ sync_log[j].file_size = drive_files[i].size}) = 1
    /\ \A row \in SuccessRows :
          \E i \in 1..Len(drive_files) :
              /\ row.drive_file_id = drive_files[i].id
              /\ row.file_size = drive_files[i].size

\* C17: sync_log only grows by appends: no step changes or removes a row
C17_SyncLogAppendOnly ==
    [][/\ Len(sync_log') >= Len(sync_log)
       /\ \A i \in 1..Len(sync_log) : sync_log'[i] = sync_log[i]]_vars

C17_Witness ==
    /\ Len(sync_log) = 2
    /\ sync_log[1].drive_file_id = 1
    /\ sync_log[2].drive_file_id = 2

\* C18: an invocation goes Idle -> Evaluating and then to exactly one of
\* Skipped (below threshold), Skipped (no link), Succeeded, Failed; it tries
\* at most one upload, a Failed attempt is not retried, and the next upload
\* needs a new invocation, started by a create, that again finds the
\* utilisation at or above the threshold
C18_OneOutcomePerInvocation ==
    /\ [][BkMoves =>
             /\ bk.pc = "Idle" =>
                   (bk'.pc = "Evaluating" /\ bk'.attempts = 0
                       /\ req'[bk'.caller].pc = "checking")
             /\ bk.pc = "Evaluating" =>
                   bk'.pc \in {"Evaluating", "Uploading", "SkippedBelow",
                               "SkippedNoLink", "Failed"}
             /\ bk'.pc = "Uploading" => Pct(db_size_bytes) >= 8000
             /\ bk.pc = "Uploading" =>
                   bk'.pc \in {"Uploading", "Succeeded", "Failed"}
             /\ bk'.pc = "Succeeded" => bk'.attempts = 1
             /\ bk.pc \in Terminal => bk'.pc = "Idle"
             /\ bk'.attempts > bk.attempts => bk.pc = "Uploading"]_vars
    /\ [](bk.attempts <= 1)
    /\ (bk.pc = "Evaluating") ~> (bk.pc \in Terminal)

C18_Witness ==
    /\ bk.pc = "Failed"
    /\ bk.attempts = 1
    /\ seq_patient = 2
    /\ Len(drive_files) = 0

RowOf(p) == CHOOSE r \in patient_records : r.id = req[p].rowid

Inserted == {p \in Clients : req[p].rowid # 0}

FirstSameName(name) ==
    FirstRow({r \in patient_records : SameName(r.patient_name, name)})

\* C19: creates of one new name can race: a request whose row carries another
\* id than the first record of its name ran its lookup before that record was
\* inserted, and such a state is reachable
C19_SameNameRace ==
    \A p \in Inserted :
        RowOf(p).patient_id # FirstSameName(RowOf(p).patient_name).patient_id =>
            req[p].looked_at < FirstSameName(RowOf(p).patient_name).id

C19_Witness ==
    \E r, q \in patient_records :
        /\ SameName(r.patient_name, q.patient_name)
        /\ r.patient_id # q.patient_id

\* C20: creates of two different new names can race: a request that numbered
\* its id by the count and shares it with an earlier record ran the count
\* before that record was inserted, and a state with two names under one id
\* is reachable
C20_DifferentNameRace ==
    \A p \in Inserted : \A r \in patient_records :
        (/\ req[p].counted_at >= 0
         /\ r.id < req[p].rowid
         /\ r.patient_id = RowOf(p).patient_id) => req[p].counted_at < r.id

C20_Witness ==
    \E p, q \in Inserted :
        /\ ~SameName(RowOf(p).patient_name, RowOf(q).patient_name)
        /\ RowOf(p).patient_id = RowOf(q).patient_id
        /\ req[p].counted_at = 0 /\ req[q].counted_at = 0
        /\ Cardinality(patient_records) = 2

Persisted(record_id) == {r \in patient_records : r.id = record_id}

\* C22: PUT /patients/{record_id} for a persisted record with a non-empty
\* diagnosis_details, no statement of which fails, answers 200 with a record
\* carrying the new value
C22_UpdateAnswersRecord ==
    [][\A p \in Clients :
          (/\ UpdateFetch(p, "none")
           /\ TruthyText(req[p].update_data.diagnosis_details)
           /\ Persisted(req[p].rowid) # {}) =>
              /\ resp'.status = 200
              /\ \E b \in resp'.body :
                    b.diagnosis_details =
                        TheValue(req[p].update_data.diagnosis_details)]_vars

\* C25: a PUT /patients/{record_id} that answers 400, 404 or 500 has modified
\* no persisted record
C25_FailedUpdateWritesNothing ==
    [][\A p \in Clients :
          (AnsweredBy(p, "update") /\ resp'.status # 200) =>
              /\ ~req'[p].changed
              /\ patient_records' = patient_records]_vars

DeleteStep(record_id) ==
    \E fault \in DeleteFaults : delete_patient_record(record_id, fault)

\* C29: DELETE /patients/{record_id} answers 404 for an id without a record
\* and leaves the store unchanged; for an existing id it removes exactly that
\* record and leaves every other record as it was (a failing store answers
\* 500 and removes nothing)
C29_DeleteExactlyOne ==
    [][\A record_id \in 1..MaxRecords :
          DeleteStep(record_id) =>
              /\ resp'.status \in {200, 404, 500}
              /\ resp'.status = 404 <=>
                    (Persisted(record_id) = {} /\ resp'.status # 500)
              /\ resp'.status # 200 => patient_records' = patient_records
              /\ resp'.status = 200 =>
                    /\ Cardinality(Persisted(record_id)) = 1
                    /\ patient_records' = patient_records \ Persisted(record_id)
                    /\ \A r \in patient_records :
                          r.id # record_id => r \in patient_records']_vars

C29_Witness ==
    /\ resp.op = "delete"
    /\ resp.status = 200
    /\ Persisted(resp.rowid) = {}
    /\ \E r \in patient_records : r.id < resp.rowid

\* C21: GET /patients/{record_id} for a persisted record answers 200 with
\* that record, and answers 404 only when no record has the id
C21_GetAnswersRecord ==
    [][\A record_id \in 1..MaxRecords :
          get_patient_record(record_id, "none") =>
              IF Persisted(record_id) # {}
              THEN resp'.status = 200 /\ resp'.body = Persisted(record_id)
              ELSE resp'.status = 404]_vars

Exported(body) == CHOOSE out \in body : TRUE

\* C23: the export holds one entry per persisted record whose "Patient ID"
\* is the record's patient_id, and "total" is the number of records
C23_ExportCarriesPatientId ==
    [][export_records("none") =>
          /\ Exported(resp'.body).total = Cardinality(patient_records)
          /\ \A r \in patient_records :
                Cardinality({i \in 1..Len(Exported(resp'.body).records) :
                                /\ Exported(resp'.body).records[i].ID = Num(r.id)
                                /\ Exported(resp'.body).records[i].PatientID = Text(r.patient_id)})
                    = 1]_vars

Listed(body) == (CHOOSE out \in body : TRUE).records

\* C24: GET /patients with search equal to a record's patient_id and no user
\* filter lists that record whatever its age; without a search the listing
\* holds the records of the last seven days only
C24_SearchByPatientId ==
    [][\A search \in Searches :
          get_all_patients(None, search, "none") =>
              IF TruthyName(search)
              THEN \A r \in patient_records :
                      r.patient_id = TheValue(search) =>
                          \E i \in 1..Len(Listed(resp'.body)) :
                              Listed(resp'.body)[i] = r
              ELSE {Listed(resp'.body)[i] : i \in 1..Len(Listed(resp'.body))}
                      = {r \in patient_records : Recent(r)}]_vars

C24_Witness ==
    /\ resp.op = "list"
    /\ resp.status = 200
    /\ \E i \in 1..Len(Listed(resp.body)) :
          /\ Listed(resp.body)[i] \in patient_records
          /\ Listed(resp.body)[i].patient_id = P0002
          /\ ~Recent(Listed(resp.body)[i])

\* both requests had started before either inserted its record
Overlapping(p, q) ==
    /\ req[p].looked_at < req[q].rowid
    /\ req[q].looked_at < req[p].rowid

\* C26: two concurrent creates of one brand-new name, with no other request
\* writing the store, persist two records with the same patient_id
C26_TwoCreatesOneId ==
    \A p, q \in Inserted :
        (/\ p # q
         /\ \A o \in Clients \ {p, q} : req[o].pc = "idle"
         /\ Cardinality(patient_records) = 2
         /\ Overlapping(p, q)
         /\ SameName(RowOf(p).patient_name, RowOf(q).patient_name)) =>
            RowOf(p).patient_id = RowOf(q).patient_id

\* the register requests for a phone whose INSERT ran without a failure of the
\* store: it inserted the row or it met the UNIQUE constraint
PastInsert(phone_number) ==
    {p \in Registrants :
        /\ reg[p].phone_number = phone_number
        /\ reg[p].passed
        /\ reg[p].pc \in {"inserted", "done"}
        /\ ~(reg[p].rowid = 0 /\ reg[p].detail = StoreFailed)}

\* C27: no two users share a phone number; a register whose check finds the
\* phone registered is answered 400 and adds no user; of the registers that
\* passed the check with one phone and ran their INSERT exactly one inserted
\* a row, and every other one was answered 500 by the UNIQUE constraint
C27_UniquePhone ==
    [][/\ \A u, v \in users' : u.phone_number = v.phone_number => u = v
       /\ \A p \in Registrants, phone_number \in Phones :
             (RegCheck(p, phone_number, "none") /\ UsersWithPhone(phone_number) # {}) =>
                 /\ reg'[p].pc = "done"
                 /\ reg'[p].status = 400
                 /\ reg'[p].detail = AlreadyRegistered
                 /\ reg'[p].rowid = 0
                 /\ users' = users
       /\ \A p \in Registrants : reg[p].pc = "done" => (reg' = reg \/ reg'[p] = reg[p])
       /\ \A phone_number \in Phones :
             LET ran == PastInsert(phone_number)' IN
             ran # {} =>
                 /\ Cardinality({q \in ran : reg'[q].rowid # 0}) = 1
                 /\ Cardinality(UsersWithPhone(phone_number)') = 1
                 /\ \A q \in ran :
                       reg'[q].rowid = 0 =>
                           /\ reg'[q].pc = "done"
                           /\ reg'[q].status = 500
                           /\ reg'[q].detail = UniqueFailed]_vars

C27_Witness ==
    \E p, q, o \in Registrants :
        /\ reg[p].phone_number = reg[q].phone_number
        /\ reg[o].phone_number = reg[p].phone_number
        /\ reg[p].passed /\ reg[q].passed /\ ~reg[o].passed
        /\ reg[p].pc = "done" /\ reg[p].status = 200
        /\ reg[q].pc = "done" /\ reg[q].status = 500 /\ reg[q].detail = UniqueFailed
        /\ reg[o].pc = "done" /\ reg[o].status = 400
        /\ Cardinality(users) = 1

\* C28: the user_id of every persisted patient record is the id of a user
C28_RecordOwnerExists ==
    \A r \in patient_records : \E u \in users : u.id = r.user_id

====
